---- MODULE Spec2Model ----
(***************************************************************************)
(* Resource-ownership model of infer-rs: the unified Environment/Session   *)
(* front door (src/lib.rs), the ONNX Runtime backend (src/onnx/mod.rs,     *)
(* src/onnx/api.rs) and the CoreML backend (src/coreml/mod.rs), run        *)
(* against a counting fake of the two native runtimes.  Every public       *)
(* operation is one action; the native calls it makes, in order, are       *)
(* recorded in native.calls, and the fake keeps the table of open handles. *)
(***************************************************************************)
EXTENDS Naturals, Integers, Sequences, FiniteSets, TLC

VARIABLES
    coreml_enabled, \* cfg(all(feature = "coreml", target_os = "macos")) of this build
    envs,           \* live Environment values
    sessions,       \* live Session values (onnx::Session or coreml::MLModel)
    tensors,        \* live tensor views held by the caller
    native,         \* the fake native runtimes: open handles and the last operation's calls
    slices,         \* live data slices handed out by as_slice
    faults,         \* how many native calls the fake has made fail so far
    result          \* what the last operation returned

vars == <<coreml_enabled, envs, sessions, tensors, slices, native, faults, result>>

(***************************************************************************)
(* Bounds of the model.                                                    *)
(***************************************************************************)
\* size of the fake's handle tables: at most this many handles of a kind open at once
MaxHandles == 3
\* native calls the fake makes fail (or misbehave) in one behaviour
MaxFaults == 1
\* longest input list passed to run / predict
MaxInputs == 1
\* Environment, Session and tensor values the caller holds at once
MaxEnvs == 1
MaxSessions == 1
MaxTensors == 2
\* data slices the caller holds at once
MaxSlices == 1

\* a native handle is a pair <<kind, slot>>; NULL is the null pointer
NULL == <<"NULL", 0>>
Slots == 1..MaxHandles

(***************************************************************************)
(* Text.  A string is a sequence of characters; NUL is the byte 0.         *)
(***************************************************************************)
NUL == "NUL"

HasNul(s) == \E i \in 1..Len(s) : s[i] = NUL

\* CString::new(bytes): Err on an interior 0 byte, else the bytes plus a terminator
CStringNew(s) ==
    IF HasNul(s) THEN [ok |-> FALSE, bytes |-> <<>>]
    ELSE [ok |-> TRUE, bytes |-> Append(s, NUL)]

\* index of the first NUL of a native buffer (every native buffer has one)
FirstNul(buf) == CHOOSE i \in 1..Len(buf) :
                    /\ buf[i] = NUL
                    /\ \A j \in 1..(i - 1) : buf[j] # NUL

\* CStr::from_ptr(raw).to_owned(): the bytes up to and including the first NUL
CStrFromPtr(buf) == SubSeq(buf, 1, FirstNul(buf))

\* CStr::to_str().to_string(): the bytes without the terminator
CStrToString(c) == SubSeq(c, 1, Len(c) - 1)

\* what the native side writes for a name: the name and its terminator
NativeBuf(name) == Append(name, NUL)

(***************************************************************************)
(* Paths.  Path::extension: the part of the file name after its last dot;  *)
(* None without a dot, None when the only dot starts the file name.        *)
(***************************************************************************)
None == <<"None">>
Some(x) == <<"Some", x>>

LastIndexOf(s, c) ==
    IF \E i \in 1..Len(s) : s[i] = c
    THEN CHOOSE i \in 1..Len(s) : s[i] = c /\ \A j \in (i + 1)..Len(s) : s[j] # c
    ELSE 0

\* Path::file_name: the last component
FileName(path) == SubSeq(path, LastIndexOf(path, "/") + 1, Len(path))

Extension(path) ==
    LET file == FileName(path)
        dot  == LastIndexOf(file, ".")
    IN  IF file = <<>> \/ file = <<".", ".">> THEN None
        ELSE IF dot = 0 THEN None
        ELSE IF dot = 1 THEN None
        ELSE Some(SubSeq(file, dot + 1, Len(file)))

ONNX_EXT    == <<"o", "n", "n", "x">>
MLMODEL_EXT == <<"m", "l", "m", "o", "d", "e", "l">>

(***************************************************************************)
(* The fake native runtimes.  N is a record: live maps each open handle to *)
(* what the object behind it holds, calls is the list of native calls made *)
(* so far by the running operation (function, handle argument, whether the *)
(* handle was open, what the call returned), bad is the set of handles     *)
(* released while not open.                                                *)
(***************************************************************************)
IsLive(N, h) == h \in DOMAIN N.live

\* the handle the next successful create call of a kind returns: the lowest
\* free slot of that kind (NoSlot when the table is full; full then stays set
\* and the operation that asked is outside the model's bound)
NoSlot(kind) == <<kind, MaxHandles + 1>>

Fresh(N, kind) ==
    LET free == {n \in Slots : <<kind, n>> \notin DOMAIN N.live}
    IN  IF free = {} THEN NoSlot(kind)
        ELSE <<kind, CHOOSE n \in free : \A m \in free : n <= m>>

\* a native call is made: fn on handle h (NULL when it takes none), handing
\* back the handle ret (NULL for none) and filling a vector with the handles outs
LogOuts(N, fn, h, ret, outs) ==
    [N EXCEPT !.calls = Append(@, [fn |-> fn, h |-> h,
                                   live |-> (h = NULL \/ IsLive(N, h)),
                                   ret |-> ret, outs |-> outs])]

Log(N, fn, h, ret) == LogOuts(N, fn, h, ret, <<>>)

\* the native side creates an object of the given kind
Alloc(N, kind, tag) ==
    [N EXCEPT !.live = (Fresh(N, kind) :> [tag |-> tag]) @@ @,
              !.full = @ \/ Fresh(N, kind) = NoSlot(kind)]

\* a native call that hands out a new handle of the given kind
NativeOpen(N, fn, h, kind, tag) == Alloc(Log(N, fn, h, Fresh(N, kind)), kind, tag)

\* what a status object holds: an error code and a NUL-terminated message
StatusCodes == {"ORT_FAIL", "ORT_INVALID_ARGUMENT", "ORT_NO_SUCHFILE", "ORT_NO_MODEL"}

FailStatus == [code |-> "ORT_FAIL", message |-> NativeBuf(<<"e">>)]

\* a native call that fails: it returns a status object
NativeFail(N, fn, h) == NativeOpen(N, fn, h, "Status", FailStatus)

\* a native release call; releasing NULL is a no-op in both runtimes
NativeRelease(N, fn, h) ==
    LET N1 == Log(N, fn, h, NULL)
    IN  IF h = NULL THEN N1
        ELSE IF IsLive(N, h)
        THEN [N1 EXCEPT !.live = [g \in DOMAIN N.live \ {h} |-> N.live[g]]]
        ELSE [N1 EXCEPT !.bad = @ \cup {h}]

\* what the native object behind h holds (the output table of a session or
\* model, the text of a string, the name an output value was produced for)
TagOf(N, h) == IF IsLive(N, h) THEN N.live[h].tag ELSE <<>>

OpenOfKind(N, kind) == {h \in DOMAIN N.live : h[1] = kind}

(***************************************************************************)
(* src/onnx/api.rs: the status adapter and the API wrappers.               *)
(***************************************************************************)
\* a byte that cannot occur in UTF-8 text
INVALID_UTF8 == "0xFF"

MALFORMED_MESSAGE == <<"<malformed utf8 message>">>

\* CStr::from_ptr(message).to_str().unwrap_or("<malformed utf8 message>").to_string()
MessageToString(buf) ==
    IF \E i \in 1..Len(buf) : buf[i] = INVALID_UTF8 THEN MALFORMED_MESSAGE
    ELSE CStrToString(CStrFromPtr(buf))

\* what GetErrorCode and GetErrorMessage return for a status: what the object
\* holds while it is open
StatusRead(N, status) ==
    IF IsLive(N, status) THEN N.live[status].tag
    ELSE [code |-> "freed", message |-> NativeBuf(<<>>)]

\* let err = Error { code, message }; ReleaseStatus(status); Err(err)
ConsumeAfterRead(N, status) ==
    [N |-> NativeRelease(N, "ReleaseStatus", status), ok |-> FALSE,
     err |-> [code |-> StatusRead(N, status).code,
              message |-> MessageToString(StatusRead(N, status).message)]]

\* API::consume_status
\* (variant: the status is released before it is read)
ConsumeStatusReleasingFirst(N, status) ==
    IF status = NULL THEN [N |-> N, ok |-> TRUE, err |-> [code |-> "", message |-> <<>>]]
    ELSE [N |-> Log(Log(NativeRelease(N, "ReleaseStatus", status),
                        "GetErrorCode", status, NULL),
                    "GetErrorMessage", status, NULL),
          ok |-> FALSE,
          err |-> [code |-> "freed", message |-> <<>>]]

consume_status(N, status) ==
    IF status = NULL THEN [N |-> N, ok |-> TRUE, err |-> [code |-> "", message |-> <<>>]]
    ELSE ConsumeAfterRead(Log(Log(N, "GetErrorCode", status, NULL),
                              "GetErrorMessage", status, NULL), status)

\* a wrapper around a native create call (create_env, create_session, ...):
\* the native call either fills the out-parameter and returns a null status,
\* or returns a status object
ApiCreate(N, fn, h, kind, tag, fails) ==
    IF fails
    THEN [N |-> consume_status(NativeFail(N, fn, h), Fresh(N, "Status")).N,
          ok |-> FALSE, h |-> NULL]
    ELSE [N |-> consume_status(NativeOpen(N, fn, h, kind, tag), NULL).N,
          ok |-> TRUE, h |-> Fresh(N, kind)]

\* a wrapper around a native query call (session_get_output_count, ...)
ApiQuery(N, fn, h, fails) ==
    IF fails
    THEN [N |-> consume_status(NativeFail(N, fn, h), Fresh(N, "Status")).N, ok |-> FALSE]
    ELSE [N |-> consume_status(Log(N, fn, h, NULL), NULL).N, ok |-> TRUE]

\* API::new: OrtGetApiBase()->GetApi(ORT_API_VERSION), null for an unsupported version
ApiNew(N, fails) ==
    [N |-> Log(Log(N, "OrtGetApiBase", NULL, NULL), "GetApi", NULL, NULL), ok |-> ~fails]

\* the fake stayed within its tables
Within(N) == ~N.full

\* the fake may make n more calls fail
Budget(n) == faults + n <= MaxFaults

(***************************************************************************)
(* Results of operations.                                                  *)
(***************************************************************************)
Ok(op, arg, session, outputs) ==
    [op |-> op, arg |-> arg, ok |-> TRUE, err |-> "", session |-> session,
     outputs |-> outputs]

Err(op, arg, err) ==
    [op |-> op, arg |-> arg, ok |-> FALSE, err |-> err, session |-> NULL,
     outputs |-> <<>>]

\* the fake at the start of an operation: its call list is empty
Begin == [native EXCEPT !.calls = <<>>]

(***************************************************************************)
(* onnx::Environment::new, reached through Environment::new of src/lib.rs. *)
(* Each step of the function takes the result of the call before it.       *)
(***************************************************************************)
EnvNewFailures == {"none", "GetApi", "CreateCpuMemoryInfo", "CreateEnv"}

\* Drop for MemoryInfo
DropMemoryInfo(N, memory_info) == NativeRelease(N, "ReleaseMemoryInfo", memory_info)

NoEnvironment(N, err) == [N |-> N, ok |-> FALSE, err |-> err, env |-> <<>>]

\* let inner = api.create_env(...)?; Ok(Environment { api, inner, memory_info })
\* on the error return the MemoryInfo already built is dropped
EnvNewAfterCreateEnv(e, memory_info) ==
    IF ~e.ok THEN NoEnvironment(DropMemoryInfo(e.N, memory_info), "Other")
    ELSE [N |-> e.N, ok |-> TRUE, err |-> "",
          env |-> [inner |-> e.h, memory_info |-> memory_info]]

\* let memory_info = MemoryInfo { inner: api.create_cpu_memory_info(...)? }
EnvNewAfterMemoryInfo(m, fail) ==
    IF ~m.ok THEN NoEnvironment(m.N, "Other")
    ELSE EnvNewAfterCreateEnv(ApiCreate(m.N, "CreateEnv", NULL, "Env", <<>>,
                                        fail = "CreateEnv"), m.h)

\* let api = API::new().ok_or(Error::UnsupportedAPIVersion)?
EnvNewAfterApiNew(a, fail) ==
    IF ~a.ok THEN NoEnvironment(a.N, "UnsupportedAPIVersion")
    ELSE EnvNewAfterMemoryInfo(ApiCreate(a.N, "CreateCpuMemoryInfo", NULL, "MemoryInfo",
                                         <<>>, fail = "CreateCpuMemoryInfo"), fail)

OnnxEnvironmentNew(N, fail) == EnvNewAfterApiNew(ApiNew(N, fail = "GetApi"), fail)

\* the caller's state once Environment::new has returned r
EnvironmentNewReturn(r, fail) ==
    /\ Within(r.N)
    /\ native' = r.N
    /\ envs' = IF r.ok THEN envs \cup {r.env} ELSE envs
    /\ result' = IF r.ok THEN Ok("Environment::new", <<>>, NULL, <<>>)
                 ELSE Err("Environment::new", <<>>, r.err)
    /\ faults' = IF fail = "none" THEN faults ELSE faults + 1
    /\ UNCHANGED <<coreml_enabled, slices, sessions, tensors>>

EnvironmentNew ==
    \E fail \in {f \in EnvNewFailures : f # "none" => Budget(1)} :
        /\ Cardinality(envs) < MaxEnvs
        /\ EnvironmentNewReturn(OnnxEnvironmentNew(Begin, fail), fail)

(***************************************************************************)
(* Drop for Environment: Drop::drop runs first, then the fields are        *)
(* dropped in declaration order (api, memory_info, inner).                 *)
(***************************************************************************)
\* (variant: the fields dropped before Drop::drop runs)
DropOnnxEnvironmentFieldsFirst(N, env) ==
    NativeRelease(DropMemoryInfo(N, env.memory_info), "ReleaseEnv", env.inner)

DropOnnxEnvironment(N, env) ==
    DropMemoryInfo(NativeRelease(N, "ReleaseEnv", env.inner), env.memory_info)

\* Session<'env>, Tensor<'t> with 'a: 't, OutputTensor<'a>: a value that borrows
\* the Environment keeps it from being dropped
\* (variant: values that hold no borrow of the Environment)
EnvNeverBorrowed(env) == FALSE

EnvBorrowed(env) ==
    \/ \E s \in sessions : s.env = env.inner
    \/ \E t \in tensors : t.env = env.inner
    \/ \E sl \in slices : sl.env = env.inner

DropEnvironment ==
    \E env \in envs :
        /\ ~EnvBorrowed(env)
        /\ native' = DropOnnxEnvironment(Begin, env)
        /\ envs' = envs \ {env}
        /\ result' = Ok("drop Environment", env.inner, NULL, <<>>)
        /\ UNCHANGED <<coreml_enabled, slices, sessions, tensors, faults>>

(***************************************************************************)
(* Inputs the caller and the native side can supply.                       *)
(***************************************************************************)
X == <<"x">>
Y == <<"y">>

\* output-name tables of the models on disk
ModelTables == {<<X, Y>>}

\* element types a native tensor can have: f32 is the one type with a
\* DataType impl, a model can declare others
FLOAT == "FLOAT"
DOUBLE == "DOUBLE"

\* what the model on disk declares for its outputs: x is a 2x3 tensor of
\* float32, y a vector of four float64
DeclaredType(name) ==
    IF name = X THEN [elem |-> FLOAT, dims |-> <<2, 3>>]
    ELSE [elem |-> DOUBLE, dims |-> <<4>>]

\* the type and shape of the native tensor behind h, produced for an output name
TypeAndShapeOf(N, h) == DeclaredType(CStrToString(TagOf(N, h)))

P_onnx    == <<"m", ".", "o", "n", "n", "x">>
P_mlmodel == <<"m", ".", "m", "l", "m", "o", "d", "e", "l">>
P_txt     == <<"m", ".", "t", "x", "t">>
P_noext   == <<"o", "n", "n", "x">>
P_dotfile == <<".", "o", "n", "n", "x">>
P_indir   == <<"d", ".", "o", "n", "n", "x", "/", "m">>
P_nul     == <<"m", NUL, ".", "o", "n", "n", "x">>

Paths == {P_onnx, P_mlmodel, P_txt, P_noext, P_dotfile, P_indir, P_nul}

OutputIndexes == 1..2

None0 == <<"none", 0>>

\* what the fake does during one load: the output table of the model it
\* opens, the call it makes fail (None0: no call), whether the CUDA append
\* returns an error status.  Only scripts that differ for the load are listed.
OnnxLoadScripts ==
    {sc \in [table : ModelTables,
             fail : {<<fn, 0>> : fn \in {"none", "GetAllocatorWithDefaultOptions",
                                         "CreateSessionOptions", "CreateSession",
                                         "SessionGetOutputCount"}}
                    \cup {<<fn, i>> : fn \in {"SessionGetOutputName", "AllocatorFree"},
                                      i \in OutputIndexes},
             cuda_fails : BOOLEAN] :
        /\ sc.fail[2] <= Len(sc.table)
        /\ sc.cuda_fails => sc.fail[1] \notin {"GetAllocatorWithDefaultOptions",
                                               "CreateSessionOptions"}}

CoreMLLoadScripts ==
    [table : ModelTables, fail : {None0, <<"open_coreml_model", 0>>}, cuda_fails : {FALSE}]

NoLoadScripts == {[table |-> <<X>>, fail |-> None0, cuda_fails |-> FALSE]}

\* the calls a script makes fail
Faults(sc) == (IF sc.fail = None0 THEN 0 ELSE 1) + (IF sc.cuda_fails THEN 1 ELSE 0)

FaultCounts == 0..2

\* the scripts that make at most b calls fail
OnnxLoadScriptsWithin == [b \in FaultCounts |-> {sc \in OnnxLoadScripts : Faults(sc) <= b}]

CoreMLLoadScriptsWithin ==
    [b \in FaultCounts |-> {sc \in CoreMLLoadScripts : Faults(sc) <= b}]

\* the failures the fake may still inject, as an index of the tables above
Left == IF MaxFaults - faults >= 2 THEN 2 ELSE MaxFaults - faults

(***************************************************************************)
(* onnx::Environment::new_session (src/onnx/mod.rs).                       *)
(***************************************************************************)
\* the scope guard around the new session handle: |ptr| self.api.release_session(ptr)
\* (variant: a guard that releases nothing)
SessGuardForgotten(N, sess) == N

SessGuardFire(N, sess) == NativeRelease(N, "ReleaseSession", sess)

\* (variant: the guard fires on the success path too)
SessGuardFiringOnSuccess(N, sess) == NativeRelease(N, "ReleaseSession", sess)

\* ScopeGuard::into_inner(sess): hands the handle to the Session, the guard does not fire
SessGuardIntoInner(N, sess) == N

\* the closure of the output-name loop, for outputs i, i+1, ... of the session:
\* session_get_output_name(...)?, the copy of the name, allocator_free(...)?
RECURSIVE EnumOutputNames(_, _, _, _, _)
RECURSIVE EnumAfterGetName(_, _, _, _, _)
RECURSIVE EnumAfterFree(_, _, _, _, _, _)

EnumAfterFree(fr, sess, i, fail, acc, ret) ==
    IF ~fr.ok THEN [N |-> fr.N, ok |-> FALSE, c_names |-> <<>>]
    ELSE EnumOutputNames(fr.N, sess, i + 1, fail, Append(acc, ret))

EnumAfterGetName(raw, sess, i, fail, acc) ==
    IF ~raw.ok THEN [N |-> raw.N, ok |-> FALSE, c_names |-> <<>>]
    ELSE EnumAfterFree(ApiQuery(raw.N, "AllocatorFree", NULL, fail = <<"AllocatorFree", i>>),
                       sess, i, fail, acc, CStrFromPtr(NativeBuf(TagOf(raw.N, sess)[i])))

EnumOutputNames(N, sess, i, fail, acc) ==
    IF i > Len(TagOf(N, sess)) THEN [N |-> N, ok |-> TRUE, c_names |-> acc]
    ELSE EnumAfterGetName(ApiQuery(N, "SessionGetOutputName", sess,
                                   fail = <<"SessionGetOutputName", i>>),
                          sess, i, fail, acc)

NoSession(N, err) == [N |-> N, ok |-> FALSE, err |-> err, session |-> <<>>]

\* a Session or MLModel value: output_names are the C names converted to Strings
SessionValue(backend, inner, c_names, env) ==
    [backend |-> backend, inner |-> inner,
     output_names |-> [i \in 1..Len(c_names) |-> CStrToString(c_names[i])],
     output_c_names |-> c_names, env |-> env]

\* .collect::<Result<Vec<_>, Error>>()? and Ok(Session { .. })
NewSessionAfterNames(names, sess, env) ==
    IF ~names.ok THEN NoSession(SessGuardFire(names.N, sess), "Other")
    ELSE [N |-> SessGuardIntoInner(names.N, sess), ok |-> TRUE, err |-> "",
          session |-> SessionValue("ONNX", sess, names.c_names, env.inner)]

\* let output_count = self.api.session_get_output_count(*sess)?
NewSessionAfterCount(count, sess, env, fail) ==
    IF ~count.ok THEN NoSession(SessGuardFire(count.N, sess), "Other")
    ELSE NewSessionAfterNames(EnumOutputNames(count.N, sess, 1, fail, <<>>), sess, env)

\* let sess = scopeguard::guard(self.api.create_session(...)?, ...)
NewSessionAfterCreate(sess, env, fail) ==
    IF ~sess.ok THEN NoSession(sess.N, "Other")
    ELSE NewSessionAfterCount(ApiQuery(sess.N, "SessionGetOutputCount", sess.h,
                                       fail = <<"SessionGetOutputCount", 0>>),
                              sess.h, env, fail)

\* sys::OrtSessionOptionsAppendExecutionProvider_CUDA(sess_options, 0): the
\* status this call returns is not looked at
AppendCUDA(N, sess_options, cuda_fails) ==
    IF cuda_fails
    THEN NativeFail(N, "OrtSessionOptionsAppendExecutionProvider_CUDA", sess_options)
    ELSE Log(N, "OrtSessionOptionsAppendExecutionProvider_CUDA", sess_options, NULL)

\* let sess_options = self.api.create_session_options()?
NewSessionAfterOptions(so, env, table, fail, cuda_fails) ==
    IF ~so.ok THEN NoSession(so.N, "Other")
    ELSE NewSessionAfterCreate(ApiCreate(AppendCUDA(so.N, so.h, cuda_fails), "CreateSession",
                                         env.inner, "Session", table,
                                         fail = <<"CreateSession", 0>>),
                               env, fail)

\* let allocator = self.api.get_allocator_with_default_options()?
NewSessionAfterAllocator(al, env, table, fail, cuda_fails) ==
    IF ~al.ok THEN NoSession(al.N, "Other")
    ELSE NewSessionAfterOptions(ApiCreate(al.N, "CreateSessionOptions", NULL,
                                          "SessionOptions", <<>>,
                                          fail = <<"CreateSessionOptions", 0>>),
                                env, table, fail, cuda_fails)

OnnxNewSession(N, env, model_path, table, fail, cuda_fails) ==
    IF ~CStringNew(model_path).ok THEN NoSession(N, "MalformedModelPath")
    ELSE NewSessionAfterAllocator(ApiQuery(N, "GetAllocatorWithDefaultOptions", NULL,
                                           fail = <<"GetAllocatorWithDefaultOptions", 0>>),
                                  env, table, fail, cuda_fails)

(***************************************************************************)
(* coreml::MLModel::new (src/coreml/mod.rs).                               *)
(***************************************************************************)
\* mlmodel_get_output_names fills dest with one NSString per output
RECURSIVE GetOutputNames(_, _, _, _)
GetOutputNames(N, table, i, dest) ==
    IF i > Len(table) THEN [N |-> N, dest |-> dest]
    ELSE GetOutputNames(Alloc(N, "NSString", table[i]), table, i + 1,
                        Append(dest, Fresh(N, "NSString")))

\* the closure over the NSStrings: copy the text, release the string
RECURSIVE ReadOutputNames(_, _, _)
ReadOutputNames(N, strings, acc) ==
    IF strings = <<>> THEN [N |-> N, c_names |-> acc]
    ELSE ReadOutputNames(NativeRelease(Log(N, "nsstring_utf8", Head(strings), NULL),
                                       "release_object", Head(strings)),
                         Tail(strings),
                         Append(acc, CStrFromPtr(NativeBuf(TagOf(N, Head(strings))))))

\* Ok(Self { ptr, output_names, output_c_names })
MLModelNewAfterNames(names, ptr, env) ==
    [N |-> names.N, ok |-> TRUE, err |-> "",
     session |-> SessionValue("CoreML", ptr, names.c_names, env.inner)]

\* mlmodel_get_output_names(ptr, ...) and the conversion of its strings
MLModelNewAfterStrings(strs, ptr, env) ==
    MLModelNewAfterNames(ReadOutputNames(strs.N, strs.dest, <<>>), ptr, env)

\* let output_count = mlmodel_output_count(ptr); mlmodel_get_output_names(ptr, ...)
MLModelNewAfterOpen(N, ptr, env, table) ==
    MLModelNewAfterStrings(
        GetOutputNames(Log(Log(N, "mlmodel_output_count", ptr, NULL),
                           "mlmodel_get_output_names", ptr, NULL), table, 1, <<>>),
        ptr, env)

MLModelNew(N, env, model_path, table, fail) ==
    IF ~CStringNew(model_path).ok THEN NoSession(N, "MalformedPath")
    ELSE IF fail = <<"open_coreml_model", 0>>
    THEN NoSession(Log(N, "open_coreml_model", NULL, NULL), "OpenError")
    ELSE MLModelNewAfterOpen(NativeOpen(N, "open_coreml_model", NULL, "MLModel", table),
                             Fresh(N, "MLModel"), env, table)

(***************************************************************************)
(* Environment::new_session of src/lib.rs: the backend is picked by the    *)
(* extension of the path.                                                  *)
(***************************************************************************)
\* (variant: every path that is not a CoreML model goes to the ONNX backend)
LibNewSessionDefaultingToOnnx(N, env, model_path, table, fail, cuda_fails) ==
    IF coreml_enabled /\ Extension(model_path) = Some(MLMODEL_EXT)
    THEN MLModelNew(N, env, model_path, table, fail)
    ELSE OnnxNewSession(N, env, model_path, table, fail, cuda_fails)

LibNewSession(N, env, model_path, table, fail, cuda_fails) ==
    IF Extension(model_path) = Some(ONNX_EXT)
    THEN OnnxNewSession(N, env, model_path, table, fail, cuda_fails)
    ELSE IF coreml_enabled /\ Extension(model_path) = Some(MLMODEL_EXT)
    THEN MLModelNew(N, env, model_path, table, fail)
    ELSE NoSession(N, "UnsupportedFormat")

LoadScripts(model_path) ==
    IF HasNul(model_path) THEN NoLoadScripts
    ELSE IF Extension(model_path) = Some(ONNX_EXT) THEN OnnxLoadScriptsWithin[Left]
    ELSE IF coreml_enabled /\ Extension(model_path) = Some(MLMODEL_EXT)
    THEN CoreMLLoadScriptsWithin[Left]
    ELSE NoLoadScripts

\* the caller's state once new_session has returned r
NewSessionReturn(r, model_path, sc) ==
    /\ Within(r.N)
    /\ native' = r.N
    /\ sessions' = IF r.ok THEN sessions \cup {r.session} ELSE sessions
    /\ result' = IF r.ok THEN Ok("new_session", model_path, r.session.inner, <<>>)
                 ELSE Err("new_session", model_path, r.err)
    /\ faults' = faults + Faults(sc)
    /\ UNCHANGED <<coreml_enabled, slices, envs, tensors>>

NewSession ==
    /\ Cardinality(sessions) < MaxSessions
    /\ \E env \in envs, model_path \in Paths :
        \E sc \in LoadScripts(model_path) :
            NewSessionReturn(LibNewSession(Begin, env, model_path, sc.table, sc.fail,
                                           sc.cuda_fails), model_path, sc)

(***************************************************************************)
(* Drop for Session (ONNX) and Drop for MLModel (CoreML).                  *)
(***************************************************************************)
DropSessionValue(N, s) ==
    IF s.backend = "ONNX" THEN NativeRelease(N, "ReleaseSession", s.inner)
    ELSE NativeRelease(N, "release_object", s.inner)

DropSession ==
    \E s \in sessions :
        /\ native' = DropSessionValue(Begin, s)
        /\ sessions' = sessions \ {s}
        /\ result' = Ok("drop Session", <<>>, s.inner, <<>>)
        /\ UNCHANGED <<coreml_enabled, slices, envs, tensors, faults>>

(***************************************************************************)
(* Tensor views.  onnx::Environment::new_tensor wraps caller data in a     *)
(* native value; Drop for Tensor / Drop for OutputTensor release.          *)
(***************************************************************************)
A == <<"a">>
A_NUL_B == <<"a", NUL, "b">>

InputNames == {A, A_NUL_B}

\* what a native query does when it is handed a null value handle: it
\* rejects the handle with an error status, or it dereferences it and the
\* process dies
NullQueryOutcomes == {"error", "crash"}

MaterializeCalls == {"GetTensorTypeAndShape", "GetTensorElementType", "GetTensorMutableData",
                     "GetDimensionsCount", "GetDimensions"}

AllPresent(n) == [i \in 1..n |-> TRUE]

\* what the fake does during one run of a session with n outputs: which
\* outputs it produces, the call it makes fail (None0: no call), what its
\* queries do with a null value handle.  Only scripts that differ for the run
\* are listed: no absent output together with an injected failure, and one
\* null-query outcome where every output is present.
OnnxRunScripts ==
    [n \in OutputIndexes |->
        {sc \in [present : [1..n -> BOOLEAN],
                 fail : {None0, <<"Run", 0>>}
                        \cup {<<fn, i>> : fn \in MaterializeCalls, i \in 1..n},
                 null_query : NullQueryOutcomes] :
            /\ sc.fail # None0 => sc.present = AllPresent(n)
            /\ sc.present = AllPresent(n) => sc.null_query = "error"}]

CoreMLRunScripts ==
    [n \in OutputIndexes |->
        {sc \in [present : [1..n -> BOOLEAN], fail : {None0, <<"mlmodel_predict", 0>>},
                 null_query : {"error"}] :
            sc.fail # None0 => sc.present = AllPresent(n)}]

OnnxRunScriptsFaultless == [n \in OutputIndexes |-> {sc \in OnnxRunScripts[n] : sc.fail = None0}]

CoreMLRunScriptsFaultless ==
    [n \in OutputIndexes |-> {sc \in CoreMLRunScripts[n] : sc.fail = None0}]

RunFaults(sc) == IF sc.fail = None0 THEN 0 ELSE 1

\* a Tensor or OutputTensor value (coreml::OutputTensor has no data_type field)
TensorValue(backend, inner, env, data_type, shape) ==
    [backend |-> backend, inner |-> inner, env |-> env, data_type |-> data_type,
     shape |-> shape]

\* Ok(Tensor { inner: self.api.create_tensor_with_data_as_ort_value(...)?,
\*             data_type: T::tensor_element_data_type(), shape: shape.to_vec(), .. })
\* for the caller's f32 data of shape [1, 2]
NewTensorAfterCreate(v, env) ==
    [N |-> v.N, ok |-> v.ok,
     tensor |-> TensorValue("ONNX", v.h, env.inner, FLOAT, <<1, 2>>)]

OnnxNewTensor(N, env, fails) ==
    NewTensorAfterCreate(ApiCreate(N, "CreateTensorWithDataAsOrtValue", env.memory_info,
                                   "Value", <<>>, fails), env)

\* the caller's state once new_tensor has returned r
NewTensorReturn(r, fails) ==
    /\ Within(r.N)
    /\ native' = r.N
    /\ tensors' = IF r.ok THEN tensors \cup {r.tensor} ELSE tensors
    /\ result' = IF r.ok THEN Ok("new_tensor", <<>>, NULL, <<>>)
                 ELSE Err("new_tensor", <<>>, "Other")
    /\ faults' = IF fails THEN faults + 1 ELSE faults
    /\ UNCHANGED <<coreml_enabled, slices, envs, sessions>>

NewTensor ==
    \E env \in envs, fails \in {f \in BOOLEAN : f => Budget(1)} :
        /\ Cardinality(tensors) < MaxTensors
        /\ NewTensorReturn(OnnxNewTensor(Begin, env, fails), fails)

DropTensorValue(N, t) ==
    IF t.backend = "ONNX" THEN NativeRelease(N, "ReleaseValue", t.inner)
    ELSE NativeRelease(N, "release_object", t.inner)

RECURSIVE DropAll(_, _)
DropAll(N, ts) ==
    IF ts = <<>> THEN N ELSE DropAll(DropTensorValue(N, Head(ts)), Tail(ts))

\* a tensor the native runtime produced owns its buffer: releasing the handle
\* frees the data.  A value made by new_tensor wraps the caller's buffer.
OwnsBuffer(N, t) == t.backend = "CoreML" \/ TagOf(N, t.inner) # <<>>

\* the slices after the handle of t was released
SlicesAfterDrop(N, t) ==
    {IF sl.view = t.inner /\ OwnsBuffer(N, t) THEN [sl EXCEPT !.freed = TRUE] ELSE sl :
        sl \in slices}

\* a slice whose lifetime is that of the borrow of the view (&self) keeps the
\* view from being dropped or moved
DropTensor ==
    \E t \in tensors :
        /\ ~\E sl \in slices : sl.borrows = "view" /\ sl.view = t.inner
        /\ native' = DropTensorValue(Begin, t)
        /\ tensors' = tensors \ {t}
        /\ slices' = SlicesAfterDrop(native, t)
        /\ result' = Ok("drop Tensor", <<>>, NULL, <<>>)
        /\ UNCHANGED <<coreml_enabled, envs, sessions, faults>>

(***************************************************************************)
(* onnx::Session::run (src/onnx/mod.rs) and API::run (src/onnx/api.rs).    *)
(***************************************************************************)
\* the input names of a run, encoded: ok only if every CString::new succeeds
EncodeNames(inputs) ==
    [ok |-> \A i \in 1..Len(inputs) : CStringNew(inputs[i].name).ok]

\* the native Run: one value per requested output name, null where the
\* runtime produced none
RECURSIVE NativeRunOutputs(_, _, _, _, _)
NativeRunOutputs(N, c_names, present, i, outputs) ==
    IF i > Len(c_names) THEN [N |-> N, outputs |-> outputs]
    ELSE IF present[i]
    THEN NativeRunOutputs(Alloc(N, "Value", c_names[i]), c_names, present, i + 1,
                          Append(outputs, Fresh(N, "Value")))
    ELSE NativeRunOutputs(N, c_names, present, i + 1, Append(outputs, NULL))

\* the Ok return of API::run: the vector the native call filled
ApiRunReturn(r, sess) ==
    [N |-> consume_status(LogOuts(r.N, "Run", sess, NULL, r.outputs), NULL).N, ok |-> TRUE,
     outputs |-> r.outputs]

\* API::run
ApiRun(N, sess, output_names, present, fails) ==
    IF fails
    THEN [N |-> consume_status(NativeFail(N, "Run", sess), Fresh(N, "Status")).N,
          ok |-> FALSE, outputs |-> <<>>]
    ELSE ApiRunReturn(NativeRunOutputs(N, output_names, present, 1, <<>>), sess)

\* the guards of the run closure: |ptr| self.api.release_value(ptr) and
\* |ptr| self.api.release_tensor_type_and_shape_info(ptr)
ValueGuardFire(N, value) == NativeRelease(N, "ReleaseValue", value)

InfoGuardFire(N, info) == NativeRelease(N, "ReleaseTensorTypeAndShapeInfo", info)

RECURSIVE ValueGuardsFire(_, _)
ValueGuardsFire(N, values) ==
    IF values = <<>> THEN N
    ELSE ValueGuardsFire(ValueGuardFire(N, Head(values)), Tail(values))

\* (variant: the table indexed from its end)
OutputNameFromTheEnd(s, i) == s.output_names[Len(s.output_names) + 1 - i]

\* &self.output_names[i]
OutputNameAt(s, i) == s.output_names[i]

NoOutputs(N, err) == [N |-> N, ok |-> FALSE, crash |-> FALSE, err |-> err, outputs |-> <<>>]

Crash(N) == [N |-> N, ok |-> FALSE, crash |-> TRUE, err |-> "abort", outputs |-> <<>>]

\* an error return of the closure for output i: its info guard fires if it was
\* set up (info # NULL), then its value guard, then the guards still in the
\* iterator, then the tensors already collected are dropped
\* (variant: the tensors already collected are forgotten)
UnwindLeavingCollected(N, s, values, i, info, acc) ==
    ValueGuardsFire(IF info = NULL THEN N ELSE InfoGuardFire(N, info),
                    SubSeq(values, i, Len(values)))

Unwind(N, s, values, i, info, acc) ==
    DropAll(ValueGuardsFire(IF info = NULL THEN N ELSE InfoGuardFire(N, info),
                            SubSeq(values, i, Len(values))),
            [j \in 1..Len(acc) |-> TensorValue("ONNX", acc[j].inner, s.env,
                                                acc[j].data_type, acc[j].shape)])

\* the queries of the closure after get_tensor_type_and_shape, in order
ClosureQueries(info, value) ==
    << <<"GetTensorElementType", info>>, <<"GetTensorMutableData", value>>,
       <<"GetDimensionsCount", info>>, <<"GetDimensions", info>> >>

\* each query is followed by `?`: the first failure ends the closure
RECURSIVE Queries(_, _, _, _)
RECURSIVE QueriesAfter(_, _, _, _)

QueriesAfter(q, qs, i, fail) == IF ~q.ok THEN q ELSE Queries(q.N, qs, i, fail)

Queries(N, qs, i, fail) ==
    IF qs = <<>> THEN [N |-> N, ok |-> TRUE]
    ELSE QueriesAfter(ApiQuery(N, Head(qs)[1], Head(qs)[2], fail = <<Head(qs)[1], i>>),
                      Tail(qs), i, fail)

\* the closure that turns output i into a Tensor, then the rest of the collect
RECURSIVE Materialize(_, _, _, _, _, _)
RECURSIVE MaterializeAfterInfo(_, _, _, _, _, _)
RECURSIVE MaterializeAfterQueries(_, _, _, _, _, _, _)

\* Ok((&self.output_names[i], Tensor { inner: ScopeGuard::into_inner(value), .. }))
MaterializeAfterQueries(q, s, values, i, sc, acc, info) ==
    IF ~q.ok THEN NoOutputs(Unwind(q.N, s, values, i, info, acc), "Other")
    ELSE Materialize(InfoGuardFire(q.N, info), s, values, i + 1, sc,
                     Append(acc, [name |-> OutputNameAt(s, i), inner |-> values[i],
                                  data_type |-> TagOf(q.N, info).elem,
                                  shape |-> TagOf(q.N, info).dims]))

\* let info = scopeguard::guard(self.api.get_tensor_type_and_shape(*value)?, ...)
MaterializeAfterInfo(info, s, values, i, sc, acc) ==
    IF ~info.ok THEN NoOutputs(Unwind(info.N, s, values, i, NULL, acc), "Other")
    ELSE MaterializeAfterQueries(Queries(info.N, ClosureQueries(info.h, values[i]), i, sc.fail),
                                 s, values, i, sc, acc, info.h)

Materialize(N, s, values, i, sc, acc) ==
    IF i > Len(values) THEN [N |-> N, ok |-> TRUE, crash |-> FALSE, err |-> "",
                             outputs |-> acc]
    ELSE IF values[i] = NULL /\ sc.null_query = "crash"
    THEN Crash(Log(N, "GetTensorTypeAndShape", values[i], NULL))
    ELSE MaterializeAfterInfo(
             ApiCreate(N, "GetTensorTypeAndShape", values[i], "TypeAndShapeInfo",
                       TypeAndShapeOf(N, values[i]),
                       \/ sc.fail = <<"GetTensorTypeAndShape", i>>
                       \/ values[i] = NULL /\ sc.null_query = "error"),
             s, values, i, sc, acc)

\* let outputs = self.api.run(...)?, the value guards, the collect
RunAfterApiRun(run, s, sc) ==
    IF ~run.ok THEN NoOutputs(run.N, "Other")
    ELSE Materialize(run.N, s, run.outputs, 1, sc, <<>>)

OnnxSessionRun(N, s, inputs, sc) ==
    IF ~EncodeNames(inputs).ok THEN NoOutputs(N, "MalformedInputName")
    ELSE RunAfterApiRun(ApiRun(N, s.inner, s.output_c_names, sc.present,
                               sc.fail = <<"Run", 0>>), s, sc)

(***************************************************************************)
(* coreml::MLModel::predict and OutputProvider (src/coreml/mod.rs).        *)
(***************************************************************************)
\* if output_provider.is_null()
\* (variant: no null check)
ProviderNeverNull(provider) == FALSE

ProviderIsNull(provider) == provider = NULL

\* Drop for OutputProvider
\* (variant: the provider is kept)
OutputProviderKept(N, provider) == N

DropOutputProvider(N, provider) == NativeRelease(N, "release_object", provider)

\* OutputProvider::output_tensor on a multiarray that is there: its shape is read
ReadShape(N, multiarray) ==
    Log(Log(N, "mlmultiarray_dimensionality", multiarray, NULL),
        "mlmultiarray_get_shape", multiarray, NULL)

\* the loop over the output names: OutputProvider::output_tensor for each,
\* None (no entry) for a null multiarray
RECURSIVE OutputTensors(_, _, _, _, _, _)
OutputTensors(N, s, provider, present, i, acc) ==
    IF i > Len(s.output_names) THEN [N |-> N, outputs |-> acc]
    ELSE IF ~present[i]
    THEN OutputTensors(Log(N, "mlfeatureprovider_multiarray_by_name", provider, NULL),
                       s, provider, present, i + 1, acc)
    ELSE OutputTensors(ReadShape(NativeOpen(N, "mlfeatureprovider_multiarray_by_name",
                                            provider, "MultiArray", s.output_c_names[i]),
                                 Fresh(N, "MultiArray")),
                       s, provider, present, i + 1,
                       Append(acc, [name |-> s.output_names[i],
                                    inner |-> Fresh(N, "MultiArray"),
                                    data_type |-> None,
                                    shape |-> DeclaredType(s.output_names[i]).dims]))

\* Ok(ret): the OutputProvider is dropped as predict returns
PredictReturn(outs, provider) ==
    [N |-> DropOutputProvider(outs.N, provider), ok |-> TRUE, crash |-> FALSE,
     err |-> "", outputs |-> outs.outputs]

\* let output_provider = sys::mlmodel_predict(...), the null check, the loop
PredictAfterNative(N, s, provider, present) ==
    IF ProviderIsNull(provider) THEN NoOutputs(N, "PredictError")
    ELSE PredictReturn(OutputTensors(N, s, provider, present, 1, <<>>), provider)

MLModelPredict(N, s, inputs, sc) ==
    IF ~EncodeNames(inputs).ok THEN NoOutputs(N, "MalformedInputName")
    ELSE IF sc.fail = <<"mlmodel_predict", 0>>
    THEN PredictAfterNative(Log(N, "mlmodel_predict", s.inner, NULL), s, NULL, sc.present)
    ELSE PredictAfterNative(NativeOpen(N, "mlmodel_predict", s.inner, "OutputProvider", <<>>),
                            s, Fresh(N, "OutputProvider"), sc.present)

(***************************************************************************)
(* Session::run of src/lib.rs.                                             *)
(***************************************************************************)
\* the ONNX arm's first step: new_tensor for every input, in order
RECURSIVE CreateInputs(_, _, _, _, _, _)
RECURSIVE CreateInputsAfterNewTensor(_, _, _, _, _, _)

CreateInputsAfterNewTensor(t, env, names, i, fail, acc) ==
    IF ~t.ok
    THEN [N |-> DropAll(t.N, [j \in 1..Len(acc) |-> acc[j].tensor]),
          ok |-> FALSE, inputs |-> <<>>]
    ELSE CreateInputs(t.N, env, names, i + 1, fail,
                      Append(acc, [name |-> names[i], tensor |-> t.tensor]))

CreateInputs(N, env, names, i, fail, acc) ==
    IF i > Len(names) THEN [N |-> N, ok |-> TRUE, inputs |-> acc]
    ELSE CreateInputsAfterNewTensor(
             OnnxNewTensor(N, env, fail = <<"CreateTensorWithDataAsOrtValue", i>>),
             env, names, i, fail, acc)

\* the input tensors are dropped as the arm returns
LibRunAfterRun(r, inputs) ==
    IF r.crash THEN r
    ELSE [r EXCEPT !.N = DropAll(r.N, [j \in 1..Len(inputs) |-> inputs[j].tensor])]

\* let inputs = ....collect::<Result<Vec<_>, _>>()?; sess.run(&inputs)
LibRunAfterInputs(inputs, s, sc) ==
    IF ~inputs.ok THEN NoOutputs(inputs.N, "ONNXError")
    ELSE LibRunAfterRun(OnnxSessionRun(inputs.N, s, inputs.inputs, sc), inputs.inputs)

\* sess.environment()
EnvironmentOf(s) == CHOOSE e \in envs : e.inner = s.env

\* the inputs of predict: names with the caller's data
NamedInputs(names) == [j \in 1..Len(names) |-> [name |-> names[j]]]

LibSessionRun(N, s, names, sc) ==
    IF s.backend = "ONNX"
    THEN LibRunAfterInputs(CreateInputs(N, EnvironmentOf(s), names, 1, sc.fail, <<>>), s, sc)
    ELSE MLModelPredict(N, s, NamedInputs(names), sc)

\* the input lists a caller can pass
NameLists == UNION {[1..n -> InputNames] : n \in 0..MaxInputs}

Unfailing(n) == [present |-> AllPresent(n), fail |-> None0, null_query |-> "error"]

\* the scripts in which a new_tensor call of Session::run fails
CreateScripts(s, names, lib) ==
    IF lib /\ Budget(1) /\ s.backend = "ONNX"
    THEN {[Unfailing(Len(s.output_names)) EXCEPT
              !.fail = <<"CreateTensorWithDataAsOrtValue", i>>] : i \in 1..Len(names)}
    ELSE {}

\* the scripts for a run of s with these input names (lib: through src/lib.rs,
\* where a new_tensor call can fail too)
RunScripts(s, names, lib) ==
    IF \E i \in 1..Len(names) : HasNul(names[i])
    THEN {Unfailing(Len(s.output_names))} \cup CreateScripts(s, names, lib)
    ELSE IF s.backend = "ONNX"
    THEN (IF Budget(1) THEN OnnxRunScripts[Len(s.output_names)]
          ELSE OnnxRunScriptsFaultless[Len(s.output_names)]) \cup CreateScripts(s, names, lib)
    ELSE IF Budget(1) THEN CoreMLRunScripts[Len(s.output_names)]
    ELSE CoreMLRunScriptsFaultless[Len(s.output_names)]

\* the tensor views a run hands to the caller
Views(s, outputs, env) ==
    {TensorValue(s.backend, outputs[i].inner, env, outputs[i].data_type, outputs[i].shape) :
        i \in 1..Len(outputs)}

\* run(&self, ..) and predict(&self, ..) borrow the Session: it is the same after the call
\* (variant: the table is cut down to the outputs the run returned)
SessionCutToOutputs(s, r) ==
    [s EXCEPT !.output_names = [k \in 1..Len(r.outputs) |-> r.outputs[k].name]]

SessionAfterRun(s, r) == s

\* the caller's state after a run that returned r; a crash ends the process
\* and every value and native object with it
AfterRun(op, s, names, sc, r, env) ==
    IF r.crash
    THEN /\ envs' = {}
         /\ faults' = faults + RunFaults(sc)
         /\ sessions' = {}
         /\ tensors' = {}
         /\ slices' = {}
         /\ Within(r.N)
         /\ native' = [live |-> <<>>, calls |-> r.N.calls, bad |-> {}, full |-> FALSE]
         /\ result' = Err(op, names, r.err)
    ELSE /\ Within(r.N)
         /\ native' = r.N
         /\ faults' = faults + RunFaults(sc)
         /\ tensors' = tensors \cup Views(s, r.outputs, env)
         /\ Cardinality(tensors') <= MaxTensors
         /\ result' = IF r.ok THEN Ok(op, names, s.inner, r.outputs)
                      ELSE [Err(op, names, r.err) EXCEPT !.session = s.inner]
         /\ sessions' = (sessions \ {s}) \cup {SessionAfterRun(s, r)}
         /\ UNCHANGED <<envs, slices>>

SessionRun ==
    \E s \in sessions, names \in NameLists :
        \E sc \in RunScripts(s, names, TRUE) :
            /\ AfterRun("Session::run", s, names, sc, LibSessionRun(Begin, s, names, sc), s.env)
            /\ UNCHANGED coreml_enabled

\* the caller's own tensors, paired with the input names
HeldInputs(names, held) == [j \in 1..Len(names) |-> [name |-> names[j], tensor |-> held[j]]]

\* onnx::Session::run called on the ONNX variant with the caller's own tensors
OnnxRun ==
    \E s \in {x \in sessions : x.backend = "ONNX"}, names \in NameLists :
        \E sc \in RunScripts(s, names, FALSE),
           held \in [1..Len(names) -> {t \in tensors : t.backend = "ONNX"}] :
            /\ \A i, j \in 1..Len(names) : held[i] = held[j] => i = j
            /\ AfterRun("onnx::Session::run", s, names, sc,
                        OnnxSessionRun(Begin, s, HeldInputs(names, held), sc), s.env)
            /\ UNCHANGED coreml_enabled

\* coreml::MLModel::predict called on the CoreML variant
Predict ==
    \E s \in {x \in sessions : x.backend = "CoreML"}, names \in NameLists :
        \E sc \in RunScripts(s, names, FALSE) :
            /\ AfterRun("MLModel::predict", s, names, sc,
                        MLModelPredict(Begin, s, NamedInputs(names), sc), NULL)
            /\ UNCHANGED coreml_enabled

\* &self.output_names
output_names(s) == s.output_names

\* coreml::MLModel::output_names
OutputNames ==
    \E s \in {x \in sessions : x.backend = "CoreML"} :
        /\ native' = Begin
        /\ result' = Ok("MLModel::output_names", <<>>, s.inner, output_names(s))
        /\ UNCHANGED <<coreml_enabled, envs, sessions, tensors, slices, faults>>

(***************************************************************************)
(* The data accessors: onnx::Tensor::as_slice (src/onnx/mod.rs),           *)
(* coreml::OutputTensor::as_slice (src/coreml/mod.rs) and                  *)
(* OutputTensor::as_slice (src/lib.rs).                                    *)
(***************************************************************************)
\* self.shape.iter().product()
RECURSIVE product(_)
product(shape) == IF shape = <<>> THEN 1 ELSE Head(shape) * product(Tail(shape))

\* Tensor::shape, OutputTensor::shape: &self.shape
shape(t) == t.shape

\* the element type of the buffer a view points into: the caller's f32 data
\* for a view made by new_tensor, else what the native tensor holds
BufferElem(N, t) ==
    IF OwnsBuffer(N, t) THEN TypeAndShapeOf(N, t.inner).elem ELSE FLOAT

\* std::slice::from_raw_parts(ptr as *const T, len): len elements read as T
\* from a buffer that holds elements of type holds
FromRawParts(T, holds, len) == [read_as |-> T, holds |-> holds, len |-> len]

\* onnx::Tensor::as_slice::<T>
\* (variant: the length is the number of dimensions)
OnnxAsSliceOfRank(N, t, T) ==
    IF T = t.data_type
    THEN [N |-> N, slice |-> Some(FromRawParts(T, BufferElem(N, t), Len(t.shape)))]
    ELSE [N |-> N, slice |-> None]

OnnxAsSlice(N, t, T) ==
    IF T = t.data_type
    THEN [N |-> N, slice |-> Some(FromRawParts(T, BufferElem(N, t), product(t.shape)))]
    ELSE [N |-> N, slice |-> None]

\* sys::mlmultiarray_data(self.multiarray): a pointer to the array's own buffer
MultiArrayData(N, multiarray) == Log(N, "mlmultiarray_data", multiarray, NULL)

\* coreml::OutputTensor::as_slice: the pointer is cast to *const f32
CoreMLAsSlice(N, t) ==
    [N |-> MultiArrayData(N, t.inner),
     slice |-> FromRawParts(FLOAT, BufferElem(N, t), product(t.shape))]

\* Self::CoreML(t) => Some(t.as_slice())
LibAsSliceCoreML(r) == [N |-> r.N, slice |-> Some(r.slice)]

\* OutputTensor::as_slice: Self::ONNX(t) => t.as_slice() with T = f32
LibAsSlice(N, t) ==
    IF t.backend = "ONNX" THEN OnnxAsSlice(N, t, FLOAT)
    ELSE LibAsSliceCoreML(CoreMLAsSlice(N, t))

\* the accessors a view can be read through; a view made by new_tensor is an
\* onnx::Tensor and never an OutputTensor
Accessors(t) ==
    IF t.backend = "CoreML" THEN {"OutputTensor::as_slice", "coreml::OutputTensor::as_slice"}
    ELSE IF OwnsBuffer(native, t) THEN {"OutputTensor::as_slice", "onnx::Tensor::as_slice"}
    ELSE {"onnx::Tensor::as_slice"}

AsSliceVia(N, t, via) ==
    IF via = "OutputTensor::as_slice" THEN LibAsSlice(N, t)
    ELSE IF via = "onnx::Tensor::as_slice" THEN OnnxAsSlice(N, t, FLOAT)
    ELSE LibAsSliceCoreML(CoreMLAsSlice(N, t))

\* what the returned slice borrows: Option<&'a [T]> of onnx::Tensor<'a>
\* borrows the Environment (and the caller's data) and not the view;
\* Option<&[f32]> and &[f32] with the elided lifetime borrow the view
SliceOf(t, via) ==
    IF via = "onnx::Tensor::as_slice"
    THEN [view |-> t.inner, borrows |-> "env", env |-> t.env, freed |-> FALSE]
    ELSE [view |-> t.inner, borrows |-> "view", env |-> NULL, freed |-> FALSE]

AsSliceReturn(r, t, via) ==
    /\ native' = r.N
    /\ slices' = IF r.slice = None THEN slices ELSE slices \cup {SliceOf(t, via)}
    /\ Cardinality(slices') <= MaxSlices
    /\ result' = Ok(via, t.inner, NULL, r.slice)
    /\ UNCHANGED <<coreml_enabled, envs, sessions, tensors, faults>>

AsSlice ==
    \E t \in tensors :
        \E via \in Accessors(t) : AsSliceReturn(AsSliceVia(Begin, t, via), t, via)

\* the caller reads the slice for the last time and lets it go; a read
\* through a dangling slice finds stale bytes or faults
ReadSlice ==
    \E sl \in slices :
        /\ native' = Begin
        /\ slices' = slices \ {sl}
        /\ \/ ~sl.freed /\ result' = Ok("read slice", sl.view, NULL, <<>>)
           \/ sl.freed /\ \E outcome \in {"stale bytes", "fault"} :
                              result' = Err("read slice", sl.view, outcome)
        /\ UNCHANGED <<coreml_enabled, envs, sessions, tensors, faults>>

(***************************************************************************)
(* The specification.                                                      *)
(***************************************************************************)
Init ==
    /\ coreml_enabled \in BOOLEAN
    /\ envs = {}
    /\ sessions = {}
    /\ tensors = {}
    /\ slices = {}
    /\ native = [live |-> <<>>, calls |-> <<>>, bad |-> {}, full |-> FALSE]
    /\ faults = 0
    /\ result = Ok("start", <<>>, NULL, <<>>)

Next ==
    \/ EnvironmentNew
    \/ DropEnvironment
    \/ NewSession
    \/ DropSession
    \/ NewTensor
    \/ DropTensor
    \/ SessionRun
    \/ OnnxRun
    \/ Predict
    \/ OutputNames

Spec == Init /\ [][Next]_vars

(***************************************************************************)
(* The same operations together with the data accessors, against native    *)
(* runtimes none of whose calls fails: the fake has no failure left to      *)
(* inject (absent outputs and null-handle queries remain).                  *)
(***************************************************************************)
ViewInit ==
    /\ coreml_enabled \in BOOLEAN
    /\ envs = {}
    /\ sessions = {}
    /\ tensors = {}
    /\ slices = {}
    /\ native = [live |-> <<>>, calls |-> <<>>, bad |-> {}, full |-> FALSE]
    /\ faults = MaxFaults
    /\ result = Ok("start", <<>>, NULL, <<>>)

ViewSpec == ViewInit /\ [][Next \/ AsSlice \/ ReadSlice]_vars

(***************************************************************************)
(* API::consume_status on its own: the status adapter applied to every     *)
(* status value of a bounded set (the null pointer, or a status object     *)
(* holding an error code and a message).                                   *)
(***************************************************************************)
\* longest message of a status object
MaxMessageLen == 2

\* the messages a status can hold: text, or bytes that are not UTF-8
Messages == UNION {[1..n -> {"a", "b", INVALID_UTF8}] : n \in 0..MaxMessageLen}

\* the status values: None for the null pointer
StatusInputs ==
    {None} \cup {Some(c) : c \in [code : StatusCodes,
                                 message : {NativeBuf(m) : m \in Messages}]}

ConsumeStatusReturn(r, in) ==
    /\ native' = r.N
    /\ result' = [op |-> "consume_status", arg |-> in, ok |-> r.ok, err |-> r.err,
                  session |-> NULL, outputs |-> <<>>]
    /\ UNCHANGED <<coreml_enabled, envs, sessions, tensors, slices, faults>>

\* consume_status on the status a native call has just returned
ConsumeStatus ==
    \E in \in StatusInputs :
        ConsumeStatusReturn(
            consume_status(IF in = None THEN Begin ELSE Alloc(Begin, "Status", in[2]),
                           IF in = None THEN NULL ELSE Fresh(Begin, "Status")), in)

StatusSpec == Init /\ [][ConsumeStatus]_vars

(***************************************************************************)
(* Properties.  They read the state an operation leaves behind: result is  *)
(* what it returned, native.calls are the native calls it made, in order.  *)
(***************************************************************************)
Calls == native.calls

CallIndexes == 1..Len(native.calls)

RunOps == {"Session::run", "onnx::Session::run", "MLModel::predict"}

\* the call handed back a status object: it failed
ReturnedStatus(c) == c.ret[1] = "Status"

\* the handles held by the values the caller still has
OwnedHandles ==
    {e.inner : e \in envs} \cup {e.memory_info : e \in envs}
        \cup {s.inner : s \in sessions} \cup {t.inner : t \in tensors}

\* C1: every native handle a create or open call returned is released by
\* exactly one release call once the values that own it are gone: no handle
\* is released while not open (never two releases), and every handle still
\* open belongs to a value the caller still holds (never zero releases).
C1_EveryHandleReleasedExactlyOnce ==
    /\ native.bad = {}
    /\ DOMAIN native.live \subseteq OwnedHandles

EnumerationCalls == {"SessionGetOutputCount", "SessionGetOutputName", "AllocatorFree"}

\* an output-enumeration call after call i failed
EnumerationFailedAfter(i) ==
    \E j \in CallIndexes : j > i /\ Calls[j].fn \in EnumerationCalls /\ ReturnedStatus(Calls[j])

\* C2: in new_session, if the native session was created and a later
\* output-enumeration step (output count, output name, freeing the name
\* buffer) fails, the new session handle is released exactly once, after the
\* failure and while still open, and no Session value is returned.
C2_FailedEnumerationReleasesSession ==
    result.op = "new_session" =>
        \A i \in CallIndexes :
            (/\ Calls[i].fn = "CreateSession"
             /\ Calls[i].ret[1] = "Session"
             /\ EnumerationFailedAfter(i))
            => /\ ~result.ok
               /\ result.session = NULL
               /\ \A s \in sessions : s.inner # Calls[i].ret
               /\ ~IsLive(native, Calls[i].ret)
               /\ Cardinality({k \in CallIndexes : /\ Calls[k].fn = "ReleaseSession"
                                                   /\ Calls[k].h = Calls[i].ret}) = 1
               /\ \A k \in CallIndexes :
                     Calls[k].fn = "ReleaseSession"
                     => Calls[k].live /\ Calls[k].h = Calls[i].ret /\ k = Len(Calls)

C2_SessionReleasedAfterFailedFree ==
    /\ result.op = "new_session"
    /\ \E j, k \in CallIndexes :
        /\ j < k
        /\ Calls[j].fn = "AllocatorFree"
        /\ ReturnedStatus(Calls[j])
        /\ Calls[k].fn = "ReleaseSession"

\* C3: on every run path (Session::run, onnx::Session::run, MLModel::predict),
\* an input name with an embedded NUL makes the call fail with the
\* name-encoding error, and the call has made no native call at all.
C3_MalformedNameMakesNoNativeCall ==
    (/\ result.op \in RunOps
     /\ \E i \in 1..Len(result.arg) : result.arg[i] = A_NUL_B)
    => /\ ~result.ok
       /\ result.err = "MalformedInputName"
       /\ native.calls = <<>>

\* the paths whose extension is no recognized, compiled-in model extension
UnrecognizedPaths ==
    {P_txt, P_noext, P_dotfile, P_indir} \cup (IF coreml_enabled THEN {} ELSE {P_mlmodel})

\* C4: new_session with a path whose extension is not a recognized and
\* compiled-in model extension, or with no extension, returns
\* UnsupportedFormat, hands out no session and makes no native call.
C4_UnrecognizedExtensionIsUnsupported ==
    (result.op = "new_session" /\ result.arg \in UnrecognizedPaths)
    => /\ ~result.ok
       /\ result.err = "UnsupportedFormat"
       /\ result.session = NULL
       /\ native.calls = <<>>

C4_PathWithoutExtensionRefused ==
    /\ result.op = "new_session"
    /\ result.arg = P_noext
    /\ result.err = "UnsupportedFormat"

\* C5, as the code has it: when an Environment is destroyed, the runtime
\* environment handle is released first and the memory-info handle after it,
\* each once and while still open.
C5_EnvReleasedBeforeMemoryInfo ==
    result.op = "drop Environment" =>
        /\ Len(Calls) = 2
        /\ Calls[1].fn = "ReleaseEnv"
        /\ Calls[1].h = result.arg
        /\ Calls[1].live
        /\ Calls[2].fn = "ReleaseMemoryInfo"
        /\ Calls[2].h[1] = "MemoryInfo"
        /\ Calls[2].live

\* C5, as stated: when an Environment is destroyed, the memory-info handle
\* is released before the runtime environment handle.
C5_MemoryInfoReleasedBeforeEnv ==
    result.op = "drop Environment" =>
        \E i, j \in CallIndexes :
            i < j /\ Calls[i].fn = "ReleaseMemoryInfo" /\ Calls[j].fn = "ReleaseEnv"

C5_EnvironmentDestroyed ==
    /\ result.op = "drop Environment"
    /\ \E i, j \in CallIndexes : Calls[i].fn = "ReleaseMemoryInfo" /\ Calls[j].fn = "ReleaseEnv"

\* the Environment value a handle belongs to is still held and its handle open
EnvironmentAlive(env_handle) ==
    IsLive(native, env_handle) /\ \E e \in envs : e.inner = env_handle

\* C6: in every reachable state, whenever a Session or a Tensor view made
\* from an Environment still holds an open native handle, that Environment's
\* runtime handle is still open: it is released only after all of them.
C6_EnvironmentOutlivesItsValues ==
    /\ \A s \in sessions : IsLive(native, s.inner) => EnvironmentAlive(s.env)
    /\ \A t \in tensors : (t.env # NULL /\ IsLive(native, t.inner)) => EnvironmentAlive(t.env)

C6_SessionAndViewsOfOneEnvironment ==
    \E s \in sessions, t \in tensors :
        /\ t.env = s.env
        /\ IsLive(native, s.inner)
        /\ IsLive(native, t.inner)
        /\ result.op = "Session::run"

NativeRunCalls == {"Run", "mlmodel_predict"}

\* C7: the native run is only ever called on an open session handle: every
\* Session value holds an open handle and every open session handle belongs
\* to a Session value (a failed load leaves none), and dropping a Session
\* releases its handle, once.
C7_RunOnlyOnLiveSession ==
    /\ \A i \in CallIndexes :
          Calls[i].fn \in NativeRunCalls => Calls[i].h # NULL /\ Calls[i].live
    /\ \A s \in sessions : IsLive(native, s.inner)
    /\ OpenOfKind(native, "Session") \cup OpenOfKind(native, "MLModel")
          \subseteq {s.inner : s \in sessions}
    /\ (result.op = "new_session" /\ ~result.ok) => result.session = NULL
    /\ result.op = "drop Session" =>
          /\ ~IsLive(native, result.session)
          /\ Len(Calls) = 1
          /\ Calls[1].h = result.session
          /\ Calls[1].live

C7_RunExecuted ==
    /\ result.op \in RunOps
    /\ result.ok
    /\ \E i \in CallIndexes : Calls[i].fn \in NativeRunCalls

IsRunCall(c) == c.fn = "Run"

IsByNameCall(c) == c.fn = "mlfeatureprovider_multiarray_by_name"

NotNull(h) == h # NULL

\* the native outputs of the run, by index in the output-name table (NULL: absent)
NativeOutputsOf(calls) ==
    IF SelectSeq(calls, IsRunCall) # <<>> THEN SelectSeq(calls, IsRunCall)[1].outs
    ELSE [k \in 1..Len(SelectSeq(calls, IsByNameCall)) |->
             SelectSeq(calls, IsByNameCall)[k].ret]

NativeOutputs == NativeOutputsOf(native.calls)

NativeRunSucceeded ==
    \E i \in CallIndexes :
        \/ Calls[i].fn = "Run" /\ Calls[i].ret = NULL
        \/ Calls[i].fn = "mlmodel_predict" /\ Calls[i].ret # NULL

AbsentOutput == \E k \in 1..Len(NativeOutputs) : NativeOutputs[k] = NULL

\* C8: when the native run succeeds and reports a declared output as absent
\* (a null value handle on ONNX, a null multiarray on CoreML), run succeeds
\* and returns exactly the outputs that are present.
C8_AbsentOutputsAreSkipped ==
    (result.op \in RunOps /\ NativeRunSucceeded /\ AbsentOutput)
    => /\ result.ok
       /\ [i \in 1..Len(result.outputs) |-> result.outputs[i].inner]
              = SelectSeq(NativeOutputs, NotNull)

\* the index of a native output in the output-name table
IndexOfOutput(h) == CHOOSE k \in 1..Len(NativeOutputs) : NativeOutputs[k] = h

\* C9: on every successful run the returned pairs follow the order of the
\* Session's output-name table, and each tensor is the native output that
\* was produced for the name it is paired with: output k of the native run
\* carries table name k.
C9_OutputsPairedInTableOrder ==
    (result.op \in RunOps /\ result.ok) =>
        \E s \in sessions :
            /\ s.inner = result.session
            /\ \A i \in 1..Len(result.outputs) :
                /\ \E k \in 1..Len(NativeOutputs) : NativeOutputs[k] = result.outputs[i].inner
                /\ result.outputs[i].name = s.output_names[IndexOfOutput(result.outputs[i].inner)]
                /\ CStrToString(TagOf(native, result.outputs[i].inner)) = result.outputs[i].name
                /\ \A j \in 1..Len(result.outputs) :
                      i < j => IndexOfOutput(result.outputs[i].inner)
                                   < IndexOfOutput(result.outputs[j].inner)

C9_TwoOutputsReturned ==
    /\ result.op \in RunOps
    /\ result.ok
    /\ Len(result.outputs) = 2
    /\ result.outputs[1].name # result.outputs[2].name

\* the native run entry point reported failure among these calls
NativeRunFailedIn(calls) ==
    \E i \in 1..Len(calls) :
        \/ calls[i].fn = "Run" /\ calls[i].ret[1] = "Status"
        \/ calls[i].fn = "mlmodel_predict" /\ calls[i].ret = NULL

\* C10: a run whose native entry point (Run, mlmodel_predict) reports failure
\* returns the adapted error and no outputs, leaves no tensor view and no
\* native handle behind that was not there before, and leaves the Session
\* held, open and unchanged.
C10_FailedNativeRunLeavesNothing ==
    [][(result'.op \in RunOps /\ NativeRunFailedIn(native'.calls))
       => /\ ~result'.ok
          /\ result'.err \in {"Other", "PredictError"}
          /\ result'.outputs = <<>>
          /\ tensors' = tensors
          /\ native'.live = native.live
          /\ native'.bad = native.bad
          /\ sessions' = sessions
          /\ \E s \in sessions' : s.inner = result'.session /\ IsLive(native', s.inner)]_vars

C10_NativeRunFailed ==
    /\ result.op \in RunOps
    /\ NativeRunFailedIn(native.calls)

OnnxRunOps == {"Session::run", "onnx::Session::run"}

\* a query of the per-output materialization failed after the native Run succeeded
MaterializationFailed ==
    /\ \E i \in CallIndexes : Calls[i].fn = "Run" /\ Calls[i].ret = NULL
    /\ \E i \in CallIndexes : Calls[i].fn \in MaterializeCalls /\ ReturnedStatus(Calls[i])

\* the calls of the operation that handed out handle h, and those that released it
CreationsOf(h) ==
    {i \in CallIndexes :
        Calls[i].ret = h \/ \E k \in 1..Len(Calls[i].outs) : Calls[i].outs[k] = h}

ReleasesOf(fn, h) == {i \in CallIndexes : Calls[i].fn = fn /\ Calls[i].h = h}

\* every time h was handed out it was released once, while open, and it is closed now
ReleasedOncePerCreation(fn, h) ==
    /\ Cardinality(ReleasesOf(fn, h)) = Cardinality(CreationsOf(h))
    /\ \A i \in ReleasesOf(fn, h) : Calls[i].live
    /\ ~IsLive(native, h)

\* C18: when the native Run of an ONNX session succeeds but a query made
\* while materializing one of its outputs fails, run returns an error and no
\* tensor views, and every output value handle the Run returned (already
\* turned into a view, the failing one, the ones not yet processed) has been
\* released exactly once, as has every type/shape-info handle obtained.
C18_FailedMaterializationReleasesAll ==
    (result.op \in OnnxRunOps /\ MaterializationFailed) =>
        /\ ~result.ok
        /\ result.outputs = <<>>
        /\ \A k \in 1..Len(NativeOutputs) :
              NativeOutputs[k] # NULL =>
                  /\ Cardinality(CreationsOf(NativeOutputs[k])) = 1
                  /\ ReleasedOncePerCreation("ReleaseValue", NativeOutputs[k])
                  /\ \A t \in tensors : t.inner # NativeOutputs[k]
        /\ \A i \in CallIndexes :
              Calls[i].ret[1] = "TypeAndShapeInfo" =>
                  ReleasedOncePerCreation("ReleaseTensorTypeAndShapeInfo", Calls[i].ret)

\* the second output fails after the first one was turned into a view
C18_SecondOutputFailed ==
    /\ result.op \in OnnxRunOps
    /\ MaterializationFailed
    /\ Len(NativeOutputs) = 2
    /\ Cardinality({i \in CallIndexes : Calls[i].fn = "GetTensorTypeAndShape"}) = 2
    /\ \E i \in CallIndexes : Calls[i].fn = "GetDimensions" /\ ReturnedStatus(Calls[i])

\* C17: in a CoreML predict the output feature provider is released exactly
\* once, while open, after every by-name lookup and as the last native call
\* before predict returns; each returned view owns its multiarray handle,
\* which stays open for as long as the view is held, whatever happens to the
\* provider and the model, and is released exactly once when the view is dropped.
C17_ProviderReleasedViewsOwnArrays ==
    /\ \A i \in CallIndexes :
          (Calls[i].fn = "mlmodel_predict" /\ Calls[i].ret # NULL) =>
              /\ Cardinality(ReleasesOf("release_object", Calls[i].ret)) = 1
              /\ Calls[Len(Calls)].fn = "release_object"
              /\ Calls[Len(Calls)].h = Calls[i].ret
              /\ Calls[Len(Calls)].live
              /\ ~IsLive(native, Calls[i].ret)
              /\ \A k \in 1..Len(result.outputs) :
                    /\ IsLive(native, result.outputs[k].inner)
                    /\ \E t \in tensors : t.inner = result.outputs[k].inner
    /\ \A t \in tensors : t.backend = "CoreML" => IsLive(native, t.inner)
    /\ (result.op = "drop Tensor" /\ Calls[1].fn = "release_object") =>
          /\ Len(Calls) = 1
          /\ Calls[1].h[1] = "MultiArray"
          /\ Calls[1].live
          /\ ~IsLive(native, Calls[1].h)
          /\ \A t \in tensors : t.inner # Calls[1].h

\* a view is dropped after its model, while another view of the same predict is held
C17_ViewDroppedAfterModel ==
    /\ result.op = "drop Tensor"
    /\ Calls[1].fn = "release_object"
    /\ sessions = {}
    /\ \E t \in tensors : t.backend = "CoreML"

\* C16: the status of every fallible native call of the ONNX backend goes
\* through consume_status: each status object a call returns is read and
\* released right after the call (the CUDA execution-provider append of
\* new_session included), so no status object is discarded or left open.
C16_EveryStatusConsumed ==
    /\ OpenOfKind(native, "Status") = {}
    /\ \A i \in CallIndexes :
          ReturnedStatus(Calls[i]) =>
              /\ i + 3 <= Len(Calls)
              /\ Calls[i + 1].fn = "GetErrorCode"
              /\ Calls[i + 1].h = Calls[i].ret
              /\ Calls[i + 2].fn = "GetErrorMessage"
              /\ Calls[i + 2].h = Calls[i].ret
              /\ Calls[i + 3].fn = "ReleaseStatus"
              /\ Calls[i + 3].h = Calls[i].ret
              /\ Calls[i + 3].live

\* C11: the output-name table of a Session is captured once, at load, and
\* never changes afterwards: no step (a run or predict that succeeds or
\* fails, a drop of another value, an accessor call) changes the contents,
\* length or order of the table of a Session that is still held, and
\* output_names() returns, on every call, the table the native model
\* declared when it was loaded.
C11_OutputTableNeverChanges ==
    [][/\ \A s \in sessions : \A s2 \in sessions' :
             s2.inner = s.inner => output_names(s2) = output_names(s)
       /\ result'.op = "MLModel::output_names" =>
             \E s \in sessions' : /\ s.inner = result'.session
                                  /\ result'.outputs = output_names(s)
                                  /\ result'.outputs = TagOf(native', s.inner)]_vars

\* output_names() is called on a two-name table after a predict whose views are still held
C11_NamesReadAfterRun ==
    /\ result.op = "MLModel::output_names"
    /\ Len(result.outputs) = 2
    /\ \E t \in tensors : t.backend = "CoreML"

AsSliceOps ==
    {"OutputTensor::as_slice", "onnx::Tensor::as_slice", "coreml::OutputTensor::as_slice"}

\* the number of elements of a tensor of the given shape
RECURSIVE ElementCount(_)
ElementCount(dims) == IF dims = <<>> THEN 1 ELSE Head(dims) * ElementCount(Tail(dims))

\* the view an accessor result is about, still held by the caller
ViewRead == CHOOSE t \in tensors : t.inner = result.arg

\* C12: for every output view a run returned (runtime-owned ONNX output or
\* platform-owned CoreML output), whenever as_slice() exposes data, the number
\* of elements it exposes equals the product of the dimension sizes that
\* shape() returns for that view.
C12_SliceLengthIsShapeProduct ==
    (result.op \in AsSliceOps /\ result.outputs # None) =>
        /\ \E t \in tensors : t.inner = result.arg
        /\ OwnsBuffer(native, ViewRead) =>
              result.outputs[2].len = ElementCount(shape(ViewRead))

\* the 2x3 output of an ONNX run and of a CoreML predict is read: six elements
C12_SixElementsExposed ==
    /\ result.op = "OutputTensor::as_slice"
    /\ result.outputs # None
    /\ OwnsBuffer(native, ViewRead)
    /\ shape(ViewRead) = <<2, 3>>
    /\ result.outputs[2].len = 6

\* C13: as_slice of the unified OutputTensor returns data only when the
\* element type of the tensor equals the requested type (f32): when the
\* backend's tensor has another element type the accessor returns None and
\* never exposes its bytes read as f32, whichever backend produced the view.
C13_DataOnlyWhenTypeMatches ==
    result.op = "OutputTensor::as_slice" =>
        /\ result.outputs # None => result.outputs[2].holds = result.outputs[2].read_as
        /\ BufferElem(native, ViewRead) # FLOAT => result.outputs = None

\* C14: a slice obtained from as_slice on a runtime-owned output view is
\* never read after the native value handle of that view has been released:
\* every read of a slice finds its buffer still there.
C14_SliceReadBeforeViewDropped ==
    result.op = "read slice" => result.ok

\* the text of a status message: its bytes before the terminator
TextOf(buf) == SubSeq(buf, 1, Len(buf) - 1)

WellFormed(buf) == \A i \in 1..Len(buf) : buf[i] # INVALID_UTF8

\* the status was read, then released: code, message, release, each on the
\* open status object, which is closed afterwards
ReadThenReleasedOnce ==
    /\ Len(Calls) = 3
    /\ Calls[1].fn = "GetErrorCode"
    /\ Calls[2].fn = "GetErrorMessage"
    /\ Calls[3].fn = "ReleaseStatus"
    /\ \A i \in 1..3 : Calls[i].h[1] = "Status" /\ Calls[i].h = Calls[1].h /\ Calls[i].live
    /\ OpenOfKind(native, "Status") = {}
    /\ native.bad = {}

\* C15, as the code has it: consume_status on a null status returns Ok and
\* makes no native call (no release); on a non-null status it returns Err
\* carrying the code read from that status and its message, or the fixed
\* text "<malformed utf8 message>" when the message is not valid UTF-8, and
\* the status is released exactly once, while open, after code and message
\* have been read and before the function returns.
C15_StatusReadThenReleasedOnce ==
    result.op = "consume_status" =>
        /\ result.arg = None => (result.ok /\ Calls = <<>>)
        /\ result.arg # None =>
              /\ ~result.ok
              /\ result.err.code = result.arg[2].code
              /\ WellFormed(result.arg[2].message)
                    => result.err.message = TextOf(result.arg[2].message)
              /\ ~WellFormed(result.arg[2].message)
                    => result.err.message = MALFORMED_MESSAGE
              /\ ReadThenReleasedOnce

\* C15, as stated: a null status yields Ok and no release call; a non-null
\* status yields Err carrying the code and the message read from that
\* status, released exactly once after the reads and before the return.
C15_ErrCarriesStatusMessage ==
    result.op = "consume_status" =>
        /\ result.arg = None => (result.ok /\ Calls = <<>>)
        /\ result.arg # None =>
              /\ ~result.ok
              /\ result.err.code = result.arg[2].code
              /\ result.err.message = TextOf(result.arg[2].message)
              /\ ReadThenReleasedOnce

\* a status whose message is not valid UTF-8 was consumed
C15_MalformedMessageConsumed ==
    /\ result.op = "consume_status"
    /\ result.arg # None
    /\ ~WellFormed(result.arg[2].message)
    /\ Len(Calls) = 3

====
